---- MODULE Spec2Model ----
(***************************************************************************)
(* Buddy allocator with bit vectors (buddy.c, bitvector.h, buddy.h).       *)
(* The region table, buddy_config, buddy_init_ex, buddy_alloc_ex and       *)
(* buddy_free_ex are translated statement by statement; the caller is      *)
(* modelled by the set of addresses it holds (outstanding).                *)
(***************************************************************************)
EXTENDS Integers, Naturals, Sequences, FiniteSets, Bags, TLC

\* ------------------------------------------------------------------------
\* Program constants (buddy.c)
\* ------------------------------------------------------------------------
TOTALSIZE == 8388608
MINSIZE == 262144
MAPSIZE == TOTALSIZE \div MINSIZE
TREESIZE == MAPSIZE * 2 - 1
BASE == 201326592
BUDDY_REGIONS_N == 4

\* ------------------------------------------------------------------------
\* Bounds of the exploration
\* ------------------------------------------------------------------------
\* number of addresses the caller holds at the same time, all regions
MaxOutstanding == 4

\* ------------------------------------------------------------------------
\* Caller inputs
\* ------------------------------------------------------------------------
RECURSIVE Log2(_)
Log2(n) == IF n <= 1 THEN 0 ELSE 1 + Log2(n \div 2)

RECURSIVE Pow2(_)
Pow2(n) == IF n = 0 THEN 1 ELSE 2 * Pow2(n - 1)

\* what the caller hands to buddy_config: the slot, the number of minimal
\* blocks, the minimal block size and the base address
CfgRegions == {0}
CfgMapSizes == {1, 2, 4}
CfgMinSizes == {1, 4}
CfgBases == {4096}
\* the deepest tree the caller configures
CfgDepth == Log2(CHOOSE m \in CfgMapSizes : \A n \in CfgMapSizes : n <= m)

NULL == 0

\* ------------------------------------------------------------------------
\* bitvector.h: a bit vector of n bits is a function 0..n-1 -> BOOLEAN
\* ------------------------------------------------------------------------
bv_test(v, bit) == v[bit]
bv_set(v, bit) == [v EXCEPT ![bit] = TRUE]
bv_clear(v, bit) == [v EXCEPT ![bit] = FALSE]
bv_clearallShort(v, size) ==
    [i \in 0..(size - 1) |-> IF i < size - 1 THEN FALSE ELSE v[i]]

bv_clearall(v, size) == [i \in 0..(size - 1) |-> FALSE]

\* ------------------------------------------------------------------------
\* State
\* ------------------------------------------------------------------------
VARIABLES
    region,        \* BUDDY_REGION region[BUDDY_REGIONS_N]
    outstanding,   \* per region: bag of blocks returned by alloc, not yet freed
    phase,         \* per region: what the caller did since the last init
    last,          \* the last call and its result
    got,           \* the values the allocs of a scripted scenario returned, in order
    wild           \* the memory next to the table, seen as slots region[-1] and
                   \* region[BUDDY_REGIONS_N], and the set of these slots accessed

vars == <<region, outstanding, phase, last, got, wild>>

Regions == 0..(BUDDY_REGIONS_N - 1)

\* region ids outside the table: one below it, one above it
InvalidIds == {-1, BUDDY_REGIONS_N}


\* a slot of the table that was never configured: { 0 }
Unconfigured ==
    [totalsize |-> 0, minsize |-> 0, mapsize |-> 0, treesize |-> 0,
     used |-> <<>>, split |-> <<>>, base |-> NULL]

\* BV_DECLARE(X, SIZE): a static bit vector, zero at program start
BV_DECLARE(size) == [i \in 0..(size - 1) |-> FALSE]

\* the initializer of region[]
RegionInit ==
    [r \in Regions |->
        IF r = 0
        THEN [totalsize |-> TOTALSIZE, minsize |-> MINSIZE, mapsize |-> MAPSIZE,
              treesize |-> TREESIZE, used |-> BV_DECLARE(TREESIZE),
              split |-> BV_DECLARE(TREESIZE), base |-> BASE]
        ELSE Unconfigured]

\* ------------------------------------------------------------------------
\* buddy_config
\* ------------------------------------------------------------------------
buddy_configEven(reg, r, totalsize, minsize, base) ==
    IF r >= BUDDY_REGIONS_N
    THEN reg
    ELSE LET mapsize == totalsize \div minsize
             treesize == mapsize * 2
         IN [reg EXCEPT ![r] =
                [totalsize |-> totalsize, minsize |-> minsize,
                 mapsize |-> mapsize, treesize |-> treesize,
                 used |-> BV_DECLARE(treesize), split |-> BV_DECLARE(treesize),
                 base |-> base]]

buddy_config(reg, r, totalsize, minsize, base) ==
    IF r >= BUDDY_REGIONS_N
    THEN reg
    ELSE LET mapsize == totalsize \div minsize
             treesize == mapsize * 2 - 1
         IN [reg EXCEPT ![r] =
                [totalsize |-> totalsize, minsize |-> minsize,
                 mapsize |-> mapsize, treesize |-> treesize,
                 used |-> BV_DECLARE(treesize), split |-> BV_DECLARE(treesize),
                 base |-> base]]

\* ------------------------------------------------------------------------
\* buddy_init_ex
\* ------------------------------------------------------------------------
\* buddy_init_ex clearing the bit vectors of every slot
buddy_init_exAll(reg, r) ==
    IF r >= BUDDY_REGIONS_N
    THEN reg
    ELSE [q \in DOMAIN reg |->
            [reg[q] EXCEPT !.used = bv_clearall(reg[q].used, reg[q].treesize),
                           !.split = bv_clearall(reg[q].split, reg[q].treesize)]]

buddy_init_ex(reg, r) ==
    IF r >= BUDDY_REGIONS_N
    THEN reg
    ELSE [reg EXCEPT ![r].used = bv_clearall(reg[r].used, reg[r].treesize),
                     ![r].split = bv_clearall(reg[r].split, reg[r].treesize)]

\* ------------------------------------------------------------------------
\* buddy_alloc_ex
\* ------------------------------------------------------------------------
nodeinfo(l, k, s, a) == [level |-> l, index |-> k, size |-> s, addr |-> a]

NoNode == nodeinfo(0, -1, 0, 0)

\* the frames pushed for the two leaves of node k: right first, left on top
PushChildrenFar(stack, k, a, s, l) ==
    stack \o << nodeinfo(l, 2 * k + 2, s, a + 2 * s), nodeinfo(l, 2 * k + 1, s, a) >>

PushChildrenDup(stack, k, a, s, l) ==
    stack \o << nodeinfo(l, 2 * k + 2, s, a + s), nodeinfo(l, 2 * k + 1, s, a),
                nodeinfo(l, 2 * k + 1, s, a) >>

PushChildren(stack, k, a, s, l) ==
    stack \o << nodeinfo(l, 2 * k + 2, s, a + s), nodeinfo(l, 2 * k + 1, s, a) >>

\* the test "Too big?"
TooBigOff(size, totalsize) == FALSE

TooBigOrAll(size, totalsize) == size >= totalsize

TooBig(size, totalsize) == size > totalsize

\* the test "if already split, try another block"
NotSplitAny(split, k) == TRUE

NotSplit(split, k) == bv_test(split, k) = FALSE

\* the test "need full block" of the search loop
NeedFullBlockGe(size, s, minsize) == (size >= s \div 2) \/ (s = minsize)

NeedFullBlock(size, s, minsize) == (size > s \div 2) \/ (s = minsize)

\* the while( sp > 0 ) loop; st carries the bit vectors and the counters:
\* maxsp the highest value of sp, iters the frames popped, maxk the highest
\* index of a frame written to the stack
RECURSIVE AllocLoop(_, _, _, _)
AllocLoop(R, size, stack, st) ==
    IF Len(stack) = 0
    THEN [ret |-> NULL, node |-> NoNode, used |-> st.used, split |-> st.split,
          maxsp |-> st.maxsp, iters |-> st.iters, maxk |-> st.maxk]
    ELSE
      LET sp == Len(stack) - 1
          node == stack[sp + 1]
          rest == SubSeq(stack, 1, sp)
          k == node.index
          s == node.size
          a == node.addr
          l == node.level
          st1 == [st EXCEPT !.iters = @ + 1]
      IN IF bv_test(st.used, k)
         THEN AllocLoop(R, size, rest, st1)
         ELSE IF NeedFullBlock(size, s, R.minsize) /\ NotSplit(st.split, k)
         THEN [ret |-> R.base + a, node |-> node,
               used |-> bv_set(st.used, k), split |-> st.split,
               maxsp |-> st.maxsp, iters |-> st1.iters, maxk |-> st.maxk]
         ELSE IF size > s \div 2
         THEN AllocLoop(R, size, rest, st1)
         ELSE LET pushed == PushChildren(rest, k, a, s \div 2, l + 1)
              IN AllocLoop(R, size, pushed,
                    [st1 EXCEPT !.split = bv_set(st.split, k),
                                !.maxsp = IF Len(pushed) > @ THEN Len(pushed) ELSE @,
                                !.maxk = IF 2 * k + 2 > @ THEN 2 * k + 2 ELSE @])

\* the call: ret is the address returned, node the frame whose block was
\* reserved, reg the region table afterwards
buddy_alloc_ex(reg, r, size) ==
    LET fail == [ret |-> NULL, node |-> NoNode, reg |-> reg, maxsp |-> 0, iters |-> 0,
                 maxk |-> 0]
    IN IF r >= BUDDY_REGIONS_N
       THEN fail
       ELSE IF TooBig(size, reg[r].totalsize)
       THEN fail
       ELSE IF bv_test(reg[r].used, 0)
       THEN fail
       ELSE LET res == AllocLoop(reg[r], size, << nodeinfo(0, 0, reg[r].totalsize, 0) >>,
                                 [used |-> reg[r].used, split |-> reg[r].split,
                                  maxsp |-> 1, iters |-> 0, maxk |-> 0])
            IN [ret |-> res.ret, node |-> res.node,
                reg |-> [reg EXCEPT ![r].used = res.used, ![r].split = res.split],
                maxsp |-> res.maxsp, iters |-> res.iters, maxk |-> res.maxk]

\* ------------------------------------------------------------------------
\* buddy_free_ex
\* ------------------------------------------------------------------------
isodd(n) == n % 2 = 1

\* the step "k /= 2" both loops climb with
Up(k) == k \div 2

\* find buddy
Buddy(k) == IF isodd(k) THEN k + 1 ELSE k - 1

\* "Find block to be freed": the first while( k > 0 ) loop
RECURSIVE FindBlock(_, _)
FindBlock(k, st) ==
    IF k > 0
    THEN LET k2 == Up(k)
         IN IF bv_test(st.used, k2)
            THEN [k |-> k2, used |-> bv_clear(st.used, k2),
                  split |-> bv_clear(st.split, k2)]
            ELSE FindBlock(k2, st)
    ELSE [k |-> k, used |-> st.used, split |-> st.split]

\* the condition under which the parent split bit is cleared
MergeCond(used, split, k, b) ==
    /\ ~bv_test(used, k)
    /\ ~bv_test(used, b)
    /\ ~bv_test(split, k)
    /\ bv_test(split, b)

\* "Adjust parents": the second while( k > 0 ) loop
RECURSIVE AdjustParents(_, _)
AdjustParents(k, st) ==
    IF k > 0
    THEN LET b == Buddy(k)
             p == Up(k)
             split1 == IF MergeCond(st.used, st.split, k, b)
                       THEN bv_clear(st.split, p)
                       ELSE st.split
         IN AdjustParents(Up(k), [st EXCEPT !.split = split1])
    ELSE [used |-> st.used, split |-> st.split]

\* the leaf of the tree the address belongs to
LeafOfNext(R, addr) ==
    LET disp == addr - R.base
        d == disp \div R.minsize
    IN R.mapsize + d

LeafOf(R, addr) ==
    LET disp == addr - R.base
        d == disp \div R.minsize
    IN R.mapsize + d - 1

\* the call: the region table afterwards
buddy_free_ex(reg, r, addr) ==
    IF r >= BUDDY_REGIONS_N
    THEN reg
    ELSE LET k == LeafOf(reg[r], addr)
             st0 == [used |-> bv_clear(reg[r].used, k),
                     split |-> bv_clear(reg[r].split, k)]
             found == FindBlock(k, st0)
             res == AdjustParents(found.k, [used |-> found.used, split |-> found.split])
         IN [reg EXCEPT ![r].used = res.used, ![r].split = res.split]

\* ------------------------------------------------------------------------
\* The caller
\* ------------------------------------------------------------------------
\* the caller's requests reach the top CfgDepth levels below the root
LowClass(R) ==
    IF Log2(R.mapsize) > CfgDepth THEN Log2(R.mapsize) - CfgDepth ELSE 0

\* sizes the caller asks for, all >= 1: each block class, one byte more than
\* it, and one byte less than the smallest
ReqSizes(R) ==
    { s \in { R.minsize * Pow2(LowClass(R)) - 1 } : s >= 1 }
        \cup { R.minsize * Pow2(i) : i \in LowClass(R)..Log2(R.mapsize) }
        \cup { R.minsize * Pow2(i) + 1 : i \in LowClass(R)..Log2(R.mapsize) }

Configured(r) == region[r].treesize > 0

Usable(r) == phase[r] \notin {"unconfigured", "configured"}

Held == BagCardinality(outstanding[0]) + BagCardinality(outstanding[1])
        + BagCardinality(outstanding[2]) + BagCardinality(outstanding[3])

\* the block class of a request: size rounded up to a power of two times
\* minsize
RECURSIVE RoundUp(_, _)
RoundUp(size, s) == IF size <= s THEN s ELSE RoundUp(size, 2 * s)

\* what the caller knows of a block it holds: the node alloc reserved (index,
\* level), the offset of the returned address and the block class asked for
Block(node, size, minsize) ==
    [index |-> node.index, level |-> node.level, addr |-> node.addr,
     bsize |-> RoundUp(size, minsize)]

\* what the caller did on a region since its last init; last.size is the
\* size asked of alloc, the class of the block given to free, the totalsize
\* given to config and the number of held blocks an init discards
NextPhase(p, op, ok) ==
    CASE p = "fresh" /\ op = "alloc" /\ ok -> "single"
      [] p = "single" /\ op = "free" -> "roundtrip"
      [] p \in {"single", "refused"} /\ op = "alloc" /\ ~ok -> "refused"
      [] OTHER -> "other"

NoCall == [op |-> "none", r |-> 0, size |-> 0, ret |-> NULL, index |-> -1]

\* the memory next to the table holds no region record until one is written
WildInit == [mem |-> [i \in InvalidIds |-> Unconfigured], touched |-> {}]

Init ==
    /\ region = RegionInit
    /\ outstanding = [r \in Regions |-> EmptyBag]
    /\ phase = [r \in Regions |-> IF r = 0 THEN "configured" ELSE "unconfigured"]
    /\ last = NoCall
    /\ got = << >>
    /\ wild = WildInit

Config(r, totalsize, minsize, base) ==
    /\ region' = buddy_config(region, r, totalsize, minsize, base)
    /\ outstanding' = [outstanding EXCEPT ![r] = EmptyBag]
    /\ phase' = [phase EXCEPT ![r] = "configured"]
    /\ last' = [op |-> "config", r |-> r, size |-> totalsize, ret |-> NULL, index |-> -1]

InitRegion(r) ==
    /\ Configured(r)
    /\ region' = buddy_init_ex(region, r)
    /\ outstanding' = [outstanding EXCEPT ![r] = EmptyBag]
    /\ phase' = [phase EXCEPT ![r] = "fresh"]
    /\ last' = [op |-> "init", r |-> r, size |-> BagCardinality(outstanding[r]),
                ret |-> NULL, index |-> -1]

Alloc(r, size) ==
    /\ Usable(r)
    /\ LET res == buddy_alloc_ex(region, r, size)
       IN /\ res.ret = NULL \/ Held < MaxOutstanding
          /\ region' = res.reg
          /\ outstanding' =
                IF res.ret = NULL
                THEN outstanding
                ELSE [outstanding EXCEPT ![r] =
                        @ (+) SetToBag({Block(res.node, size, region[r].minsize)})]
          /\ phase' = [phase EXCEPT ![r] = NextPhase(@, "alloc", res.ret # NULL)]
          /\ last' = [op |-> "alloc", r |-> r, size |-> size, ret |-> res.ret,
                      index |-> res.node.index]

Free(r, blk) ==
    /\ Usable(r)
    /\ BagIn(blk, outstanding[r])
    /\ LET addr == region[r].base + blk.addr
       IN /\ region' = buddy_free_ex(region, r, addr)
          /\ outstanding' = [outstanding EXCEPT ![r] = @ (-) SetToBag({blk})]
          /\ phase' = [phase EXCEPT ![r] = NextPhase(@, "free", TRUE)]
          /\ last' = [op |-> "free", r |-> r, size |-> blk.bsize, ret |-> addr,
                      index |-> blk.index]

Next ==
    \/ \E r \in CfgRegions, n \in CfgMapSizes, m \in CfgMinSizes, b \in CfgBases :
            Config(r, m * n, m, b) /\ UNCHANGED <<got, wild>>
    \/ \E r \in Regions : InitRegion(r) /\ UNCHANGED <<got, wild>>
    \/ \E r \in Regions : \E size \in ReqSizes(region[r]) :
            Alloc(r, size) /\ UNCHANGED <<got, wild>>
    \/ \E r \in Regions : \E blk \in BagToSet(outstanding[r]) :
            Free(r, blk) /\ UNCHANGED <<got, wild>>

Spec == Init /\ [][Next]_vars

\* ------------------------------------------------------------------------
\* Vocabulary of the properties
\* ------------------------------------------------------------------------
Held_r(r) == BagToSet(outstanding[r])

Nodes(r) == 0..(region[r].treesize - 1)

AllClear(r) ==
    \A k \in Nodes(r) : ~bv_test(region[r].used, k) /\ ~bv_test(region[r].split, k)

\* the byte ranges [addr, addr + bsize) of two blocks meet
Overlap(b1, b2) ==
    b1.addr < b2.addr + b2.bsize /\ b2.addr < b1.addr + b1.bsize

\* the parent of node k > 0 in the tree: (k-1)/2
Parent(k) == (k - 1) \div 2

\* the proper ancestors of node k
RECURSIVE Ancestors(_)
Ancestors(k) == IF k <= 0 THEN {} ELSE {Parent(k)} \cup Ancestors(Parent(k))

\* bag is one block, the root block of region record R
RootOnly(R, bag) ==
    bag = SetToBag({ [index |-> 0, level |-> 0, addr |-> 0, bsize |-> R.totalsize] })

HoldsRootOnly(r) == RootOnly(region[r], outstanding[r])

\* ------------------------------------------------------------------------
\* C1  Disjointness: any two blocks held at the same time (returned by
\*     alloc, not yet freed) occupy non-overlapping byte ranges
\*     [address, address + blockSize), blockSize being the request rounded
\*     up to a power of two and to at least minSize.
\* ------------------------------------------------------------------------
C1_Disjoint ==
    \A r \in Regions : \A b1 \in Held_r(r) :
        /\ CopiesIn(b1, outstanding[r]) = 1
        /\ \A b2 \in Held_r(r) : b1 # b2 => ~Overlap(b1, b2)

\* ------------------------------------------------------------------------
\* C2  free(r, addr) releases only the addressed block: the used bit of the
\*     node of every other held block of region r (a different address) is
\*     the same after the call as before.
\* ------------------------------------------------------------------------
C2_FreeKeepsOthers ==
    [][last'.op = "free" =>
        \A b \in BagToSet(outstanding'[last'.r]) :
            region[last'.r].base + b.addr # last'.ret =>
                bv_test(region'[last'.r].used, b.index)
                    = bv_test(region[last'.r].used, b.index)]_vars

\* ------------------------------------------------------------------------
\* C3  Owner discovery: free(r, addr) clears the used bit of exactly the
\*     node the alloc call that returned addr had set, so that once every
\*     held block is freed no used bit remains set.
\* ------------------------------------------------------------------------
C3_OwnerCleared ==
    [][last'.op = "free" =>
        /\ ~bv_test(region'[last'.r].used, last'.index)
        /\ \A k \in Nodes(last'.r) \ {last'.index} :
              bv_test(region'[last'.r].used, k) = bv_test(region[last'.r].used, k)
        /\ outstanding'[last'.r] = EmptyBag =>
              \A k \in Nodes(last'.r) : ~bv_test(region'[last'.r].used, k)]_vars

\* ------------------------------------------------------------------------
\* C4  Round-trip: from an initialized region, a single alloc(size) with
\*     1 <= size <= totalSize followed immediately by free of the returned
\*     address leaves every used bit and every split bit clear.
\* ------------------------------------------------------------------------
C4_RoundTrip ==
    \A r \in Regions : phase[r] = "roundtrip" => AllClear(r)

\* ------------------------------------------------------------------------
\* C5  Mutual exclusion: in every state reached by alloc, free and init
\*     calls no tree node has its used bit and its split bit both set.
\* ------------------------------------------------------------------------
C5_MutualExclusion ==
    \A r \in Regions : \A k \in Nodes(r) :
        ~(bv_test(region[r].used, k) /\ bv_test(region[r].split, k))

C5_Witness ==
    /\ last.op = "free"
    /\ \E k \in Nodes(last.r) : bv_test(region[last.r].used, k)
    /\ \E k \in Nodes(last.r) : bv_test(region[last.r].split, k)
    /\ BagCardinality(outstanding[last.r]) >= 2

\* ------------------------------------------------------------------------
\* C6  Coalescing of buddies: whenever a block is freed and its buddy is
\*     already free (nothing is held in the parent's range any more), the
\*     split bit of the parent is clear after that free; so two buddies
\*     freed in either order leave the parent unsplit.
\* ------------------------------------------------------------------------
C6_Coalesce ==
    [][(last'.op = "free" /\ last'.index > 0) =>
        LET r == last'.r
            k == last'.index
            p == Parent(k)
            sz == last'.size
            off == last'.ret - region[r].base
            lo == IF isodd(k) THEN off ELSE off - sz
        IN (\A b \in BagToSet(outstanding'[r]) :
                ~(b.addr < lo + 2 * sz /\ lo < b.addr + b.bsize))
           => ~bv_test(region'[r].split, p)]_vars

\* ------------------------------------------------------------------------
\* C7  free never un-splits a node still in use: in every reachable state
\*     each node with a held block strictly below it has its split bit set.
\* ------------------------------------------------------------------------
C7_SplitAboveHeld ==
    \A r \in Regions : \A b \in Held_r(r) : \A n \in Ancestors(b.index) :
        bv_test(region[r].split, n)

\* ------------------------------------------------------------------------
\* C8  Exhaustion: from an initialized region alloc(totalSize) succeeds;
\*     while that block is held, every further alloc(size) with
\*     size >= minSize returns null.
\* ------------------------------------------------------------------------
C8_Exhaustion ==
    [][last'.op = "alloc" =>
        LET r == last'.r
        IN /\ (phase[r] = "fresh" /\ last'.size = region[r].totalsize)
                => (last'.ret = region[r].base /\ RootOnly(region[r], outstanding'[r]))
           /\ (phase[r] \in {"single", "refused"} /\ HoldsRootOnly(r)
                 /\ last'.size >= region[r].minsize)
                => (last'.ret = NULL /\ RootOnly(region[r], outstanding'[r]))]_vars

C8_Witness ==
    /\ last.op = "alloc"
    /\ phase[last.r] = "refused"
    /\ HoldsRootOnly(last.r)
    /\ last.size >= region[last.r].minsize
    /\ last.size <= region[last.r].totalsize
    /\ last.ret = NULL

\* ------------------------------------------------------------------------
\* C9  Oversized rejection: in every reachable state alloc(size) with
\*     size > totalSize returns null.
\* ------------------------------------------------------------------------
C9_Oversized ==
    (last.op = "alloc" /\ last.size > region[last.r].totalsize) => last.ret = NULL

C9_Witness ==
    /\ last.op = "alloc"
    /\ last.size = region[last.r].totalsize + 1
    /\ last.ret = NULL
    /\ ~bv_test(region[last.r].used, 0)
    /\ outstanding[last.r] # EmptyBag

\* ------------------------------------------------------------------------
\* C10 Address range and alignment: every address a successful alloc
\*     returns satisfies base <= address < base + totalSize, and
\*     address - base is a multiple of minSize.
\* ------------------------------------------------------------------------
C10_AddressRange ==
    (last.op = "alloc" /\ last.ret # NULL) =>
        LET R == region[last.r]
        IN /\ R.base <= last.ret
           /\ last.ret < R.base + R.totalsize
           /\ (last.ret - R.base) % R.minsize = 0

C10_Witness ==
    /\ last.op = "alloc"
    /\ last.ret # NULL
    /\ last.ret > region[last.r].base
    /\ region[last.r].minsize > 1
    /\ last.size > region[last.r].minsize

\* the level of node k: level n holds the indices 2^n - 1 .. 2^(n+1) - 2
LevelOf(k) == Log2(k + 1)

\* the block class of node k: totalsize >> level
ClassOf(R, k) == R.totalsize \div Pow2(LevelOf(k))

\* the offset of the block of node k from the base of the region
OffsetOf(R, k) == (k + 1 - Pow2(LevelOf(k))) * ClassOf(R, k)

\* the offsets of the naturally aligned blocks of class c that meet no block
\* of bag
FreeOffsets(R, bag, c) ==
    { a \in { i * c : i \in 0..((R.totalsize \div c) - 1) } :
        \A b \in BagToSet(bag) : ~(b.addr < a + c /\ a < b.addr + b.bsize) }

\* ------------------------------------------------------------------------
\* C11 Block class: on every successful alloc(size), 1 <= size <= totalSize,
\*     the node whose used bit is set has the block size
\*     s = totalSize >> level that is the smallest class with s >= size and
\*     s >= minSize, and the address returned is that of this node.
\* ------------------------------------------------------------------------
C11_BlockClass ==
    (last.op = "alloc" /\ last.ret # NULL) =>
        LET R == region[last.r]
            k == last.index
            s == ClassOf(R, k)
        IN /\ k \in Nodes(last.r)
           /\ bv_test(R.used, k)
           /\ last.ret = R.base + OffsetOf(R, k)
           /\ s >= last.size
           /\ s >= R.minsize
           /\ (s \div 2 < last.size \/ s = R.minsize)

C11_Witness ==
    /\ last.op = "alloc"
    /\ last.ret # NULL
    /\ region[last.r].minsize > 1
    /\ last.size = region[last.r].minsize + 1
    /\ LevelOf(last.index) = Log2(region[last.r].mapsize) - 1
    /\ last.ret > region[last.r].base

\* ------------------------------------------------------------------------
\* C12 Lowest free address: a successful alloc(size) returns the lowest
\*     address among the naturally aligned blocks of size's class that
\*     overlap no held block; from an initialized region two successive
\*     alloc(minSize) return base and base + minSize, each setting the used
\*     bit of its leaf only.
\* ------------------------------------------------------------------------
C12_LowestFree ==
    [][(last'.op = "alloc" /\ last'.ret # NULL) =>
        LET r == last'.r
            R == region[r]
            off == last'.ret - R.base
            free == FreeOffsets(R, outstanding[r], RoundUp(last'.size, R.minsize))
            leaf0 == R.mapsize - 1
        IN /\ off \in free
           /\ \A a \in free : off <= a
           /\ (phase[r] = "fresh" /\ last'.size = R.minsize) =>
                 /\ off = 0
                 /\ \A k \in Nodes(r) : bv_test(region'[r].used, k) <=> k = leaf0
           /\ (phase[r] = "single" /\ last'.size = R.minsize /\ R.mapsize > 1
                 /\ \A b \in BagToSet(outstanding[r]) : b.index = leaf0) =>
                 /\ off = R.minsize
                 /\ \A k \in Nodes(r) :
                       bv_test(region'[r].used, k) <=> k \in {leaf0, leaf0 + 1}]_vars

\* every used bit and every split bit of region record R is clear
AllClearIn(R) ==
    \A k \in 0..(R.treesize - 1) : ~bv_test(R.used, k) /\ ~bv_test(R.split, k)

IsPow2(n) == n >= 1 /\ Pow2(Log2(n)) = n

\* ------------------------------------------------------------------------
\* C15 Reset: init(r), called in any reachable state of a configured
\*     region, leaves all treeSize used bits and split bits clear, and an
\*     alloc(r, totalSize) called immediately afterwards returns base,
\*     whatever blocks were held before.
\* ------------------------------------------------------------------------
C15_Reset ==
    [][/\ last'.op = "init" => AllClearIn(region'[last'.r])
       /\ (last.op = "init" /\ last'.op = "alloc" /\ last'.r = last.r
              /\ last'.size = region[last.r].totalsize)
            => last'.ret = region[last.r].base]_vars

C15_Witness ==
    /\ last.op = "init"
    /\ last.size >= 2
    /\ region[last.r].mapsize >= 2
    /\ AllClear(last.r)

\* ------------------------------------------------------------------------
\* C18 Tree size: after configure on a valid slot, and for the
\*     pre-populated slot 0, mapSize = totalSize / minSize,
\*     treeSize = 2*mapSize - 1 and mapSize is a power of two.
\* ------------------------------------------------------------------------
C18_TreeSize ==
    \A r \in Regions : phase[r] # "unconfigured" =>
        /\ region[r].mapsize * region[r].minsize = region[r].totalsize
        /\ region[r].mapsize = region[r].totalsize \div region[r].minsize
        /\ region[r].treesize = 2 * region[r].mapsize - 1
        /\ IsPow2(region[r].mapsize)

C18_Witness ==
    /\ last.op = "config"
    /\ region[last.r].totalsize = 16
    /\ region[last.r].minsize = 4
    /\ region[last.r].treesize = 7

\* ------------------------------------------------------------------------
\* C19 No spurious failure: if alloc(size) with 1 <= size <= totalSize
\*     returns failure, every naturally aligned block of size's class
\*     overlaps a held block; with nothing held alloc(totalSize) succeeds.
\* ------------------------------------------------------------------------
C19_NoSpuriousFailure ==
    (last.op = "alloc" /\ last.ret = NULL /\ last.size >= 1
        /\ last.size <= region[last.r].totalsize)
    => FreeOffsets(region[last.r], outstanding[last.r],
                   RoundUp(last.size, region[last.r].minsize)) = {}

\* ------------------------------------------------------------------------
\* C20 Split bit meaning: if split(k) is set, at least one held block lies
\*     strictly below node k; no split bit stays set once every block
\*     beneath the node is freed.
\* ------------------------------------------------------------------------
C20_SplitHasHeldBelow ==
    \A r \in Regions : \A k \in Nodes(r) :
        bv_test(region[r].split, k) =>
            \E b \in Held_r(r) : k \in Ancestors(b.index)

\* ------------------------------------------------------------------------
\* The fragmentation scenario: on region 0, as it starts or after one
\* configuration, init, four alloc(minsize), free of the 2nd and 3rd
\* returned addresses in either order, then alloc(2*minsize)
\* ------------------------------------------------------------------------
FragMapSizes == {4, 8, 16, 32}
FragMinSizes == {1, 4, 16}

\* the address got[i] is no longer held
Released(i) ==
    \A blk \in BagToSet(outstanding[0]) : region[0].base + blk.addr # got[i]

FragConfig(n, m, b) ==
    /\ last = NoCall
    /\ Config(0, m * n, m, b)
    /\ UNCHANGED <<got, wild>>

FragInit ==
    /\ phase[0] = "configured"
    /\ InitRegion(0)
    /\ UNCHANGED <<got, wild>>

FragAlloc ==
    /\ Len(got) < 4
    /\ Alloc(0, region[0].minsize)
    /\ got' = Append(got, last'.ret)
    /\ UNCHANGED wild

FragFree(blk) ==
    /\ Len(got) = 4
    /\ region[0].base + blk.addr \in {got[2], got[3]}
    /\ Free(0, blk)
    /\ UNCHANGED <<got, wild>>

FragFinal ==
    /\ Len(got) = 4
    /\ Released(2) /\ Released(3)
    /\ Alloc(0, 2 * region[0].minsize)
    /\ got' = Append(got, last'.ret)
    /\ UNCHANGED wild

NextFrag ==
    \/ \E n \in FragMapSizes, m \in FragMinSizes, b \in CfgBases : FragConfig(n, m, b)
    \/ FragInit
    \/ FragAlloc
    \/ \E blk \in BagToSet(outstanding[0]) : FragFree(blk)
    \/ FragFinal

SpecFrag == Init /\ [][NextFrag]_vars

\* ------------------------------------------------------------------------
\* C13 Fragmentation scenario, as claimed: from a freshly initialized region
\*     with at least four leaf blocks, after four alloc(minSize) and free of
\*     the 2nd and 3rd returned addresses, alloc(2*minSize) returns failure.
\* ------------------------------------------------------------------------
C13_FragmentationAnyMap ==
    (Len(got) = 5 /\ region[0].mapsize >= 4) => got[5] = NULL

\* C13 amended: the final alloc(2*minSize) of the scenario returns failure
\*     when the region has exactly four leaf blocks.
C13_FragmentationFourLeaves ==
    (Len(got) = 5 /\ region[0].mapsize = 4) => got[5] = NULL

C13_Witness ==
    /\ Len(got) = 5
    /\ region[0].mapsize = 4
    /\ region[0].minsize = 4
    /\ got[1] = region[0].base /\ got[2] = got[1] + 4
    /\ got[3] = got[2] + 4 /\ got[4] = got[3] + 4
    /\ BagCardinality(outstanding[0]) = 2
    /\ last.op = "alloc" /\ last.size = 8 /\ last.ret = NULL

\* ------------------------------------------------------------------------
\* Two regions in use: the caller binds two-leaf regions with storage of
\* their own to slots 0 and 1 and asks each region for its whole or its half
\* ------------------------------------------------------------------------
MultiRegions == {0, 1}
MultiMinSizes == {1, 4}

\* the storage bound to slot r
MultiBase(r) == 4096 * (r + 1)

MultiSizes(R) == { s \in {R.totalsize, R.totalsize \div 2} : s >= 1 }

NextMulti ==
    \/ \E r \in MultiRegions, m \in MultiMinSizes :
            Config(r, 2 * m, m, MultiBase(r)) /\ UNCHANGED <<got, wild>>
    \/ \E r \in MultiRegions : InitRegion(r) /\ UNCHANGED <<got, wild>>
    \/ \E r \in MultiRegions : \E size \in MultiSizes(region[r]) :
            Alloc(r, size) /\ UNCHANGED <<got, wild>>
    \/ \E r \in MultiRegions : \E blk \in BagToSet(outstanding[r]) :
            Free(r, blk) /\ UNCHANGED <<got, wild>>

SpecMulti == Init /\ [][NextMulti]_vars

\* ------------------------------------------------------------------------
\* C17 Region independence: alloc, free and init on region r leave the
\*     record and the used/split bit vectors of every other region
\*     unchanged, and configure(r, ...) changes only slot r.
\* ------------------------------------------------------------------------
C17_RegionIndependence ==
    [][\A q \in Regions : q # last'.r => region'[q] = region[q]]_vars

C17_Witness ==
    /\ last.op = "init" /\ last.r = 1 /\ last.size >= 1
    /\ AllClear(1)
    /\ outstanding[0] # EmptyBag
    /\ \E k \in Nodes(0) : bv_test(region[0].used, k)
    /\ \E k \in Nodes(0) : bv_test(region[0].split, k)

\* ------------------------------------------------------------------------
\* Calls with a region id outside the table. The entry points index
\* region[r] with it: the memory at region[-1] and region[BUDDY_REGIONS_N]
\* is the slots of wild.mem, and wild.touched the slots a call has read or
\* written.
\* ------------------------------------------------------------------------
\* the table and the memory next to it
Memory(reg, w) ==
    [i \in Regions \cup InvalidIds |-> IF i \in Regions THEN reg[i] ELSE w.mem[i]]

\* the slots a call indexes: alloc and free read region[r] before they test
\* r, config and init only after r passed the test
Accessed(op, r) ==
    IF op \in {"alloc", "free"} \/ ~(r >= BUDDY_REGIONS_N) THEN {r} ELSE {}

\* the state after a call that left memory mem
Landed(mem, op, r) ==
    /\ region' = [i \in Regions |-> mem[i]]
    /\ wild' = [mem |-> [i \in InvalidIds |-> mem[i]],
                touched |-> wild.touched \cup (Accessed(op, r) \ Regions)]

\* the addresses of the leaf blocks of region record R
LeafAddrs(R) == { R.base + i * R.minsize : i \in 0..(R.mapsize - 1) }

BadConfig(r, totalsize, minsize, base) ==
    /\ Landed(buddy_config(Memory(region, wild), r, totalsize, minsize, base), "config", r)
    /\ last' = [op |-> "config", r |-> r, size |-> totalsize, ret |-> NULL, index |-> -1]
    /\ UNCHANGED <<outstanding, phase, got>>

BadInit(r) ==
    /\ Landed(buddy_init_ex(Memory(region, wild), r), "init", r)
    /\ last' = [op |-> "init", r |-> r, size |-> 0, ret |-> NULL, index |-> -1]
    /\ UNCHANGED <<outstanding, phase, got>>

BadAlloc(r, size) ==
    /\ LET res == buddy_alloc_ex(Memory(region, wild), r, size)
       IN /\ Landed(res.reg, "alloc", r)
          /\ last' = [op |-> "alloc", r |-> r, size |-> size, ret |-> res.ret,
                      index |-> res.node.index]
    /\ UNCHANGED <<outstanding, phase, got>>

\* free divides by region[r].minsize: the call is made on a slot that holds
\* a record, or with an id the test of r turns away
BadFree(r, addr) ==
    /\ Landed(buddy_free_ex(Memory(region, wild), r, addr), "free", r)
    /\ last' = [op |-> "free", r |-> r, size |-> 0, ret |-> addr, index |-> -1]
    /\ UNCHANGED <<outstanding, phase, got>>

NextInvalid ==
    \/ \E r \in InvalidIds, m \in MultiMinSizes :
            BadConfig(r, 2 * m, m, MultiBase(1))
    \/ \E r \in InvalidIds : BadInit(r)
    \/ \E r \in InvalidIds : \E size \in {1, 2} : BadAlloc(r, size)
    \/ \E r \in InvalidIds :
            /\ r >= BUDDY_REGIONS_N \/ wild.mem[r].minsize > 0
            /\ \E addr \in {MultiBase(1)} \cup LeafAddrs(wild.mem[r]) : BadFree(r, addr)
    \/ InitRegion(0) /\ UNCHANGED <<got, wild>>
    \/ \E size \in MultiSizes(region[0]) : Alloc(0, size) /\ UNCHANGED <<got, wild>>
    \/ \E blk \in BagToSet(outstanding[0]) : Free(0, blk) /\ UNCHANGED <<got, wild>>

SpecInvalid == Init /\ [][NextInvalid]_vars

\* ------------------------------------------------------------------------
\* C14 Invalid region: for every region id outside 0..3, negative or >= 4,
\*     configure, init and free change no region's record or bit vectors
\*     and alloc returns failure, and no call reads or writes a slot
\*     outside the table.
\* ------------------------------------------------------------------------
C14_InvalidRegion ==
    [][last'.r \notin Regions =>
          /\ region' = region
          /\ last'.op = "alloc" => last'.ret = NULL
          /\ wild' = wild]_vars

\* ------------------------------------------------------------------------
\* The default-region wrappers of buddy.h. buddy_alloc calls
\* buddy_alloc_ex(0, size) and ends without a return statement: the value
\* its caller receives is the value of the call or another one (0 in the
\* optimised builds).
\* ------------------------------------------------------------------------
WrapperValues(ret) == {ret, NULL}

buddy_init == InitRegion(0) /\ UNCHANGED <<got, wild>>

\* the caller holds a block when it received its address
buddy_alloc(size) ==
    /\ Usable(0)
    /\ LET res == buddy_alloc_ex(region, 0, size)
       IN \E v \in WrapperValues(res.ret) :
          /\ v = NULL \/ Held < MaxOutstanding
          /\ region' = res.reg
          /\ outstanding' =
                IF v = NULL
                THEN outstanding
                ELSE [outstanding EXCEPT ![0] =
                        @ (+) SetToBag({Block(res.node, size, region[0].minsize)})]
          /\ phase' = [phase EXCEPT ![0] = NextPhase(@, "alloc", v # NULL)]
          /\ last' = [op |-> "alloc", r |-> 0, size |-> size, ret |-> v,
                      index |-> res.node.index]
    /\ UNCHANGED <<got, wild>>

buddy_free(blk) == Free(0, blk) /\ UNCHANGED <<got, wild>>

NextWrap ==
    \/ buddy_init
    \/ \E size \in ReqSizes(region[0]) : buddy_alloc(size)
    \/ \E blk \in BagToSet(outstanding[0]) : buddy_free(blk)

SpecWrap == Init /\ [][NextWrap]_vars

\* ------------------------------------------------------------------------
\* C16 Default-region wrappers: buddy_alloc(size) returns exactly the value
\*     buddy_alloc_ex(0, size) returns and has its effect on region 0, and
\*     buddy_init() and buddy_free(addr) have the effect of buddy_init_ex(0)
\*     and buddy_free_ex(0, addr).
\* ------------------------------------------------------------------------
C16_Wrappers ==
    [][/\ last'.op = "alloc" =>
            /\ last'.ret = buddy_alloc_ex(region, 0, last'.size).ret
            /\ region' = buddy_alloc_ex(region, 0, last'.size).reg
       /\ last'.op = "init" => region' = buddy_init_ex(region, 0)
       /\ last'.op = "free" => region' = buddy_free_ex(region, 0, last'.ret)]_vars

\* ------------------------------------------------------------------------
\* The nodes the loops of buddy_free_ex stand on
\* ------------------------------------------------------------------------
\* k and the nodes reached from it by the step of the loops, down to 0
RECURSIVE Climb(_)
Climb(k) == IF k > 0 THEN {k} \cup Climb(Up(k)) ELSE {k}

\* bit k of the used or of the split vector differs between records R1, R2
BitChanged(R1, R2, k) ==
    \/ bv_test(R1.used, k) # bv_test(R2.used, k)
    \/ bv_test(R1.split, k) # bv_test(R2.split, k)

\* ------------------------------------------------------------------------
\* C21 Parent step in free: in both loops of free each step moves from node
\*     k > 0 to its tree parent (k-1)/2, so free only changes bits of the
\*     leaf at addr and of that leaf's ancestors.
\* ------------------------------------------------------------------------
C21_ParentStep ==
    [][last'.op = "free" =>
          LET R == region[last'.r]
              leaf == LeafOf(R, last'.ret)
          IN /\ \A k \in Climb(leaf) : k > 0 => Up(k) = Parent(k)
             /\ \A k \in Nodes(last'.r) :
                   BitChanged(R, region'[last'.r], k)
                       => k \in {leaf} \cup Ancestors(leaf)]_vars

\* ------------------------------------------------------------------------
\* C22 Successful alloc frame: a successful alloc sets exactly one used
\*     bit, that of the returned node, clears no bit, and changes split
\*     bits (0 to 1) of proper ancestors of the returned node only.
\* ------------------------------------------------------------------------
C22_AllocFrame ==
    [][(last'.op = "alloc" /\ last'.ret # NULL) =>
          LET r == last'.r
              k == last'.index
              R == region[r]
              R2 == region'[r]
          IN /\ ~bv_test(R.used, k) /\ bv_test(R2.used, k)
             /\ \A n \in Nodes(r) :
                   /\ n # k => bv_test(R2.used, n) = bv_test(R.used, n)
                   /\ bv_test(R.split, n) => bv_test(R2.split, n)
                   /\ (bv_test(R2.split, n) /\ ~bv_test(R.split, n))
                         => n \in Ancestors(k)]_vars

\* ------------------------------------------------------------------------
\* C23 Failed alloc changes nothing: when alloc(r, size) returns failure,
\*     every used bit and every split bit of region r has the same value
\*     after the call as before it.
\* ------------------------------------------------------------------------
C23_FailedAllocFrame ==
    [][(last'.op = "alloc" /\ last'.ret = NULL) =>
          \A n \in Nodes(last'.r) :
              ~BitChanged(region[last'.r], region'[last'.r], n)]_vars

\* ------------------------------------------------------------------------
\* A region of eight leaves: the caller binds it to slot 0 and asks for
\* blocks of the two smallest classes
\* ------------------------------------------------------------------------
DeepMapSizes == {8}

DeepSizes(R) == {R.minsize, 2 * R.minsize}

NextDeep ==
    \/ \E n \in DeepMapSizes, m \in MultiMinSizes, b \in CfgBases :
            Config(0, m * n, m, b) /\ UNCHANGED <<got, wild>>
    \/ InitRegion(0) /\ UNCHANGED <<got, wild>>
    \/ \E size \in DeepSizes(region[0]) :
            /\ region[0].mapsize \in DeepMapSizes
            /\ Alloc(0, size)
            /\ UNCHANGED <<got, wild>>
    \/ \E blk \in BagToSet(outstanding[0]) : Free(0, blk) /\ UNCHANGED <<got, wild>>

SpecDeep == Init /\ [][NextDeep]_vars

\* ------------------------------------------------------------------------
\* C24 Bounded search stack: during any alloc call the stack never holds
\*     more than mapSize frames, for every valid region including
\*     mapSize = 1 and mapSize = 2.
\* ------------------------------------------------------------------------
C24_StackBound ==
    [][last'.op = "alloc" =>
          buddy_alloc_ex(region, last'.r, last'.size).maxsp
              <= region[last'.r].mapsize]_vars

\* an alloc that returned the right leaf of a region of two leaves: both
\* frames of the leaves were on the stack, which is mapSize frames
C24_Witness ==
    /\ last.op = "alloc" /\ last.ret # NULL
    /\ region[last.r].mapsize = 2
    /\ last.index = 2
    /\ last.ret = region[last.r].base + region[last.r].minsize

\* ------------------------------------------------------------------------
\* The iterations of the loops of buddy_free_ex
\* ------------------------------------------------------------------------
\* "Find block to be freed", entered at node k
RECURSIVE FindIters(_, _)
FindIters(k, used) ==
    IF k > 0
    THEN IF bv_test(used, Up(k)) THEN 1 ELSE 1 + FindIters(Up(k), used)
    ELSE 0

\* "Adjust parents", entered at node k
RECURSIVE AdjustIters(_)
AdjustIters(k) == IF k > 0 THEN 1 + AdjustIters(Up(k)) ELSE 0

\* the bit vectors of R after the two bv_clear of the leaf at addr
LeafCleared(R, addr) ==
    [used |-> bv_clear(R.used, LeafOf(R, addr)),
     split |-> bv_clear(R.split, LeafOf(R, addr))]

\* ------------------------------------------------------------------------
\* C25 Termination: every alloc and every free call on a valid region
\*     terminates; alloc pops at most treeSize frames and each loop of free
\*     runs at most log2(mapSize) iterations.
\* ------------------------------------------------------------------------
C25_LoopBounds ==
    [][/\ last'.op = "alloc" =>
            buddy_alloc_ex(region, last'.r, last'.size).iters
                <= region[last'.r].treesize
       /\ last'.op = "free" =>
            LET R == region[last'.r]
                st0 == LeafCleared(R, last'.ret)
                leaf == LeafOf(R, last'.ret)
            IN /\ FindIters(leaf, st0.used) <= Log2(R.mapsize)
               /\ AdjustIters(FindBlock(leaf, st0).k) <= Log2(R.mapsize)]_vars

\* ------------------------------------------------------------------------
\* The bit indices buddy_free_ex tests or clears when called with addr
\* ------------------------------------------------------------------------
FreeIndices(R, addr) ==
    LET leaf == LeafOf(R, addr)
        found == FindBlock(leaf, LeafCleared(R, addr)).k
        second == Climb(found) \ {0}
    IN { k \in Climb(leaf) : k >= found }
          \cup second
          \cup { Buddy(k) : k \in second }
          \cup { Up(k) : k \in second }

\* the leaves of region record R
Leaves(R) == { k \in 0..(R.treesize - 1) : k >= R.mapsize - 1 }

\* ------------------------------------------------------------------------
\* C26 Bitmap index bounds: every bit index that alloc, or free called with
\*     an outstanding address, tests, sets or clears lies in [0, treeSize);
\*     alloc never pushes children of a leaf and no leaf's split bit is
\*     ever set.
\* ------------------------------------------------------------------------
C26_IndexBounds ==
    [][/\ last'.op = "alloc" =>
            buddy_alloc_ex(region, last'.r, last'.size).maxk
                < region[last'.r].treesize
       /\ last'.op = "free" =>
            FreeIndices(region[last'.r], last'.ret) \subseteq Nodes(last'.r)
       /\ \A q \in Regions : \A k \in Leaves(region'[q]) :
            ~bv_test(region'[q].split, k)]_vars

\* the last leaf of a region of four leaves was held and has been freed
C26_Witness ==
    /\ last.op = "free"
    /\ region[last.r].mapsize = 4
    /\ last.index = region[last.r].treesize - 1
    /\ last.ret = region[last.r].base + 3 * region[last.r].minsize

====
